---- MODULE Spec2Model ----
(***************************************************************************)
(* Model of gst-sync-server: the server orchestrator (GstSyncServer), the  *)
(* TCP control server (GstSyncControlTcpServer) with its per-connection    *)
(* session threads, and the client (GstSyncClient with its                 *)
(* GstSyncControlTcpClient).                                               *)
(*                                                                         *)
(* Four specifications share the module:                                   *)
(*   Spec      - the orchestrator, its pipeline, bus and clock;            *)
(*   SpecCtl   - the TCP control server and its session threads, and       *)
(*               SpecCtlFair, the same with the threads scheduled fairly;  *)
(*   SpecCli   - one client, its control connection and its pipeline.      *)
(* Times are in abstract clock units.  GStreamer itself (the pipeline, the *)
(* bus, the clock) is the environment: its steps are separate actions.     *)
(***************************************************************************)
EXTENDS Integers, Sequences, FiniteSets, TLC

VARIABLES
  srv,        \* struct _GstSyncServer
  pipeline,   \* the server's GstPipeline: existence, state, pending target
  bus,        \* messages posted on the server pipeline's bus, not yet seen by bus_cb
  now,        \* the system clock (gst_clock_get_time)
  tcp,        \* struct _GstSyncControlTcpServer
  obs,        \* what the last handler did: the infos it passed to set_sync_info and
              \* the signals it emitted; and the last two base_times published
  info_seq,   \* number of sync-info values stored in the control server so far
  notifying,  \* g_object_set has stored sync-info and has not yet emitted notify
  sess,       \* one record per connection handled by run_cb
  ctl_ev,     \* client-joined / client-left emissions of the control server
  cli         \* struct _GstSyncClient with its control client, pipeline and bus

srv_vars == <<srv, pipeline, bus, now, tcp, obs>>
ctl_vars == <<info_seq, notifying, sess, ctl_ev>>
vars ==
  <<srv, pipeline, bus, now, tcp, obs, info_seq, notifying, sess, ctl_ev, cli>>

----------------------------------------------------------------------------
(* Bounds of the model *)

MaxClock == 3      \* the clock stops ticking here
MaxBus == 3        \* capacity of the modelled bus queue
MaxOffset == 2     \* no further end-of-stream once base_time_offset exceeds this

(* Program constants, scaled to clock units *)

NONE == -1                 \* GST_CLOCK_TIME_NONE, and current_track == -1
StreamStartDelay == 1      \* DEFAULT_STREAM_START_DELAY
Latency == 1               \* DEFAULT_LATENCY
DefaultVersion == 1        \* DEFAULT_VERSION

NoInfo == [null |-> TRUE]  \* a NULL GstSyncServerInfo pointer
Garbage == "<out-of-bounds>"   \* what uris[i] yields for i outside the array

----------------------------------------------------------------------------
(* Playlists: gst_sync_server_playlist_new (uris, durations, n, current) *)

playlist_new(uris, durations, current_track) ==
  [current_track |-> current_track, uris |-> uris, durations |-> durations]

\* The playlists the user installs in this model.
Playlists ==
  { playlist_new(<<"a", "b">>, <<1, 0>>, 0),
    playlist_new(<<"a", "b">>, <<NONE, 1>>, 0),
    playlist_new(<<"b", "a">>, <<0, 2>>, 0) }

\* Durations gst_element_query_duration can report.
QueriedDurations == {NONE, 2}

\* uris[i] for a C index i; reading outside the array is undefined.
UriAt(uris, i) == IF i >= 0 /\ i < Len(uris) THEN uris[i + 1] ELSE Garbage

DurationAt(durations, i) ==
  IF i >= 0 /\ i < Len(durations) THEN durations[i + 1] ELSE NONE

----------------------------------------------------------------------------
(* The server side as one record, threaded through the handlers *)

World == [srv |-> srv, pipeline |-> pipeline, bus |-> bus, tcp |-> tcp,
          obs |-> obs]

StateMsg(new_state) == [type |-> "state-changed", new_state |-> new_state]
EosMsg == [type |-> "eos"]

Rank(st) == CASE st = "NULL" -> 0 [] st = "PAUSED" -> 2 [] st = "PLAYING" -> 3

\* State-changed messages the pipeline posts while going down to NULL.
\* The READY state is passed through silently: bus_cb matches none of its
\* conditions on a change to READY.
DownMsgs(st) ==
  CASE st = "PLAYING" -> <<StateMsg("PAUSED"), StateMsg("NULL")>>
    [] st = "PAUSED" -> <<StateMsg("NULL")>>
    [] st = "NULL" -> <<>>

\* gst_element_set_state: going to NULL is synchronous, every other change is
\* completed by the pipeline later (PipelineStep).
gst_element_set_state(w, new_state) ==
  IF ~w.pipeline.exists THEN w
  ELSE IF new_state = "NULL"
       THEN [w EXCEPT !.pipeline.state = "NULL", !.pipeline.target = "NULL",
                      !.pipeline.eos = FALSE,
                      !.bus = w.bus \o DownMsgs(w.pipeline.state)]
       ELSE [w EXCEPT !.pipeline.target = new_state]

get_sync_info(s) ==
  [version |-> DefaultVersion,
   playlist |-> playlist_new(s.uris, s.durations, s.current_track),
   base_time |-> s.base_time,
   base_time_offset |-> s.base_time_offset,
   latency |-> s.latency,
   stream_start_delay |-> s.stream_start_delay,
   stopped |-> s.stopped,
   paused |-> s.paused]

\* gst_sync_control_server_set_sync_info, seen from the orchestrator: the info
\* handed to the control server is recorded as an output of the handler (what
\* the control server does with it is SpecCtl).
set_sync_info(w, i) ==
  [w EXCEPT !.obs.published = Append(@, i),
            !.obs.prev_pub = w.obs.last_pub,
            !.obs.last_pub = i.base_time]

emit(w, signal) == [w EXCEPT !.obs.signals = Append(w.obs.signals, signal)]

\* The state update_pipeline asks the pipeline for.
new_state_for(s) ==
  IF s.stopped THEN "NULL" ELSE IF s.paused THEN "PAUSED" ELSE "PLAYING"

\* The advance block without the stream start delay.
advance_track_nodelay(s) ==
  LET d == DurationAt(s.durations, s.current_track)
      skip == IF d # NONE THEN d
              ELSE IF s.last_duration # NONE THEN s.last_duration ELSE 0
  IN [s EXCEPT !.base_time_offset = @ + skip, !.current_track = @ + 1]

\* update_pipeline, the block "if (advance) { ... }" past its early return:
\* the length of the ended track (or last_duration, or nothing) and the
\* stream start delay are added to base_time_offset, current_track moves on.
advance_track(s) ==
  LET d == DurationAt(s.durations, s.current_track)
      skip == IF d # NONE THEN d
              ELSE IF s.last_duration # NONE THEN s.last_duration ELSE 0
  IN [s EXCEPT !.base_time_offset = @ + skip + s.stream_start_delay,
               !.current_track = @ + 1]

\* A fresh start that keeps the old base_time_offset.
reset_base_time_keepoffset(s, t) == [s EXCEPT !.base_time = t]

\* update_pipeline, "if (!advance) { base_time = now; base_time_offset = 0 }"
reset_base_time(s, t) == [s EXCEPT !.base_time = t, !.base_time_offset = 0]

\* update_pipeline (sync-server.c)
update_pipeline(w, advance, t) ==
  LET s == w.srv
      done == advance /\ (s.current_track = NONE
                          \/ s.current_track + 1 = s.n_tracks)
      \* "advance = FALSE" when neither duration is known
      adv == advance
             /\ (DurationAt(s.durations, s.current_track) # NONE
                 \/ s.last_duration # NONE)
      s1 == IF advance THEN advance_track(s) ELSE s
      playing == ~s1.stopped /\ ~s1.paused
      s2 == IF playing /\ ~adv THEN reset_base_time(s1, t) ELSE s1
      w1 == [w EXCEPT !.srv = s2,
                      !.pipeline.uri = UriAt(s2.uris, s2.current_track)]
  IN IF done THEN w ELSE gst_element_set_state(w1, new_state_for(s2))

\* gst_sync_server_set_property, case PROP_PLAYLIST, restarting the pipeline
\* for every playlist
set_playlist_restart(w, pl, t) ==
  LET old == w.srv
      s == [old EXCEPT !.uris = pl.uris, !.durations = pl.durations,
                       !.n_tracks = Len(pl.uris),
                       !.current_track = pl.current_track]
      w1 == [w EXCEPT !.srv = s]
  IN IF ~old.server_started THEN w1
     ELSE update_pipeline(gst_element_set_state(w1, "NULL"), FALSE, t)

\* gst_sync_server_set_property, case PROP_PLAYLIST
set_playlist(w, pl, t) ==
  LET old == w.srv
      s == [old EXCEPT !.uris = pl.uris, !.durations = pl.durations,
                       !.n_tracks = Len(pl.uris),
                       !.current_track = pl.current_track]
      w1 == [w EXCEPT !.srv = s]
      changed == old.n_tracks = 0
                 \/ old.current_track # s.current_track
                 \/ UriAt(old.uris, old.current_track)
                      # UriAt(s.uris, s.current_track)
  IN IF ~old.server_started THEN w1
     ELSE IF changed
          THEN update_pipeline(gst_element_set_state(w1, "NULL"), FALSE, t)
          ELSE set_sync_info([w1 EXCEPT !.obs.relisted = TRUE],
                             get_sync_info(s))

\* gst_sync_server_cleanup that leaves the control server running.
gst_sync_server_cleanup_keepserver(w) ==
  LET w1 == gst_element_set_state(w, "NULL")
  IN [w1 EXCEPT !.srv.clock_provider = FALSE,
                !.pipeline.exists = FALSE,
                !.bus = <<>>]

\* gst_sync_server_cleanup
gst_sync_server_cleanup(w) ==
  LET w1 == gst_element_set_state(w, "NULL")
  IN [w1 EXCEPT !.srv.clock_provider = FALSE,
                !.pipeline.exists = FALSE,
                \* the remaining messages come from a pipeline that is no
                \* longer self->pipeline: bus_cb ignores them
                !.bus = <<>>,
                !.tcp.started = FALSE,
                !.tcp.info = NoInfo,
                !.tcp.exists = FALSE,
                !.srv.server_started = IF w.tcp.exists THEN FALSE ELSE @]

\* What can go wrong in gst_sync_server_start besides a missing playlist.
StartFailures ==
  {"none", "control-server", "clock-provider", "uridecodebin", "pipeline"}

\* gst_sync_server_start, "fail:": the error is set, everything is torn
\* down, FALSE is returned.
start_fail(w) ==
  [gst_sync_server_cleanup(w) EXCEPT
     !.obs.start = [ret |-> "FALSE", error |-> TRUE]]

\* gst_sync_server_start
gst_sync_server_start(w, failure, t) ==
  LET w1 == [w EXCEPT !.tcp.exists = TRUE]
      w2 == [w1 EXCEPT !.tcp.started = TRUE]
      w3 == [w2 EXCEPT !.srv.clock_provider = TRUE]
      w4 == update_pipeline([w3 EXCEPT !.pipeline.exists = TRUE], FALSE, t)
  IN IF w.srv.n_tracks = 0 THEN start_fail(w)
     ELSE IF failure = "control-server" THEN start_fail(w1)
     ELSE IF failure = "clock-provider" THEN start_fail(w2)
     ELSE IF failure = "uridecodebin" THEN start_fail(w3)
     ELSE IF failure = "pipeline" THEN start_fail(w4)
     ELSE [w4 EXCEPT !.srv.server_started = TRUE,
                     !.obs.start = [ret |-> "TRUE", error |-> FALSE]]

----------------------------------------------------------------------------
(* Initial state: gst_sync_server_init, gst_sync_control_tcp_server_init *)


InitSrv ==
  /\ srv = [n_tracks |-> 0, current_track |-> 0, uris |-> <<>>,
            durations |-> <<>>, latency |-> Latency,
            stream_start_delay |-> StreamStartDelay,
            server_started |-> FALSE, clock_provider |-> FALSE,
            stopped |-> FALSE, paused |-> FALSE,
            base_time |-> 0, base_time_offset |-> 0,
            last_pause_time |-> NONE, last_duration |-> 0]
  /\ pipeline = [exists |-> FALSE, state |-> "NULL", target |-> "NULL",
                 eos |-> FALSE, uri |-> ""]
  /\ bus = <<>>
  /\ now = 1
  /\ tcp = [exists |-> FALSE, started |-> FALSE, info |-> NoInfo]
  /\ obs = [published |-> <<>>, signals |-> <<>>, last_pub |-> NONE,
            prev_pub |-> NONE, start |-> [ret |-> "none", error |-> FALSE],
            unstopped |-> FALSE, relisted |-> FALSE]

\* No gst_sync_server_start has returned in the last handler.
NoStart == [ret |-> "none", error |-> FALSE]

\* The outputs of the previous handler are forgotten.
Quiet(o) ==
  [o EXCEPT !.published = <<>>, !.signals = <<>>, !.start = NoStart,
            !.unstopped = FALSE, !.relisted = FALSE]

Commit(w) ==
  /\ srv' = w.srv
  /\ pipeline' = w.pipeline
  /\ bus' = w.bus
  /\ tcp' = w.tcp
  /\ obs' = w.obs

\* Every handler starts with nothing published and nothing emitted.
Fresh == [World EXCEPT !.obs = Quiet(obs)]

BusRoom(k) == Len(bus) + k <= MaxBus

\* Room for the messages of a synchronous change to NULL.
RoomForNull == BusRoom(Len(DownMsgs(pipeline.state)))

----------------------------------------------------------------------------
(* Orchestrator operations *)

\* g_object_set (server, "playlist", pl, NULL)
SetPlaylist(pl) ==
  /\ RoomForNull
  /\ Commit(set_playlist(Fresh, pl, now))
  /\ UNCHANGED <<cli, now, ctl_vars>>

\* gst_sync_server_start
Start(failure) ==
  /\ ~srv.server_started
  /\ Commit(gst_sync_server_start(Fresh, failure, now))
  /\ UNCHANGED <<cli, now, ctl_vars>>

\* A setter that never takes its early return.
already_set_never(current, wanted) == FALSE

\* gst_sync_server_set_stopped and gst_sync_server_set_paused,
\* "if (server->stopped == stopped) return;"
already_set(current, wanted) == current = wanted

\* gst_sync_server_set_stopped that only changes the state of the pipeline
SetStopped_norestart(stopped) ==
  /\ pipeline.exists
  /\ RoomForNull
  /\ IF srv.stopped = stopped
     THEN Commit(Fresh)
     ELSE LET w1 == [Fresh EXCEPT !.srv.stopped = stopped,
                                  !.obs.unstopped = ~stopped]
          IN Commit(gst_element_set_state(w1, new_state_for(w1.srv)))
  /\ UNCHANGED <<cli, now, ctl_vars>>

\* gst_sync_server_set_stopped
SetStopped(stopped) ==
  /\ pipeline.exists
  /\ RoomForNull
  /\ IF already_set(srv.stopped, stopped)
     THEN Commit(Fresh)
     ELSE Commit(update_pipeline([Fresh EXCEPT !.srv.stopped = stopped,
                                               !.obs.unstopped = ~stopped],
                                 FALSE, now))
  /\ UNCHANGED <<cli, now, ctl_vars>>

\* gst_sync_server_set_paused that forgets the time spent paused
SetPaused_nooffset(paused) ==
  /\ pipeline.exists
  /\ IF srv.paused = paused
     THEN Commit(Fresh)
     ELSE LET s1 == [srv EXCEPT !.paused = paused]
              s2 == IF paused
                    THEN [s1 EXCEPT !.last_pause_time = now]
                    ELSE [s1 EXCEPT !.last_pause_time = NONE]
              w1 == [Fresh EXCEPT !.srv = s2]
          IN Commit(gst_element_set_state(w1,
                       IF paused THEN "PAUSED" ELSE "PLAYING"))
  /\ UNCHANGED <<cli, now, ctl_vars>>

\* gst_sync_server_set_paused
SetPaused(paused) ==
  /\ pipeline.exists
  /\ IF already_set(srv.paused, paused)
     THEN Commit(Fresh)
     ELSE LET s1 == [srv EXCEPT !.paused = paused]
              s2 == IF paused
                    THEN [s1 EXCEPT !.last_pause_time = now]
                    ELSE [s1 EXCEPT !.base_time_offset =
                                       @ + now - s1.last_pause_time,
                                    !.last_pause_time = NONE]
              w1 == [Fresh EXCEPT !.srv = s2]
          IN Commit(gst_element_set_state(w1,
                       IF paused THEN "PAUSED" ELSE "PLAYING"))
  /\ UNCHANGED <<cli, now, ctl_vars>>

\* gst_sync_server_stop
Stop ==
  /\ srv.server_started
  /\ Commit(gst_sync_server_cleanup(Fresh))
  /\ UNCHANGED <<cli, now, ctl_vars>>

\* bus_cb, case GST_MESSAGE_STATE_CHANGED
BusStateChanged ==
  /\ bus # <<>>
  /\ Head(bus).type = "state-changed"
  /\ \E dur \in QueriedDurations :
       LET new_state == Head(bus).new_state
           w0 == [Fresh EXCEPT !.bus = Tail(bus)]
           publish == \/ (srv.paused /\ new_state = "PAUSED")
                      \/ (srv.stopped /\ new_state = "NULL")
                      \/ new_state = "PLAYING"
           w1 == IF publish THEN set_sync_info(w0, get_sync_info(srv)) ELSE w0
           w2 == IF new_state = "PLAYING"
                 THEN [w1 EXCEPT !.srv.last_duration = dur]
                 ELSE w1
       IN /\ (new_state # "PLAYING" => dur = NONE)
          /\ Commit(w2)
  /\ UNCHANGED <<cli, now, ctl_vars>>

\* bus_cb, case GST_MESSAGE_EOS, leaving current_track on the last track
BusEos_keeptrack(handler) ==
  /\ bus # <<>>
  /\ Head(bus).type = "eos"
  /\ Len(bus) - 1 + Len(DownMsgs(pipeline.state)) <= MaxBus
  /\ LET w0 == [Fresh EXCEPT !.bus = Tail(bus)]
         w1 == emit(gst_element_set_state(w0, "NULL"), "end-of-stream")
         last == w1.srv.current_track + 1 = w1.srv.n_tracks
         w2 == IF last THEN emit(w1, "end-of-playlist") ELSE w1
         w3 == IF last /\ handler # NoInfo
               THEN set_playlist(w2, handler, now)
               ELSE w2
     IN Commit(update_pipeline(w3, TRUE, now))
  /\ UNCHANGED <<cli, now, ctl_vars>>

\* bus_cb, case GST_MESSAGE_EOS; handler is what the application's
\* end-of-playlist callback does: nothing, or install a playlist.
BusEos(handler) ==
  /\ bus # <<>>
  /\ Head(bus).type = "eos"
  /\ Len(bus) - 1 + Len(DownMsgs(pipeline.state)) <= MaxBus
  /\ LET w0 == [Fresh EXCEPT !.bus = Tail(bus)]
         w1 == emit(gst_element_set_state(w0, "NULL"), "end-of-stream")
         last == w1.srv.current_track + 1 = w1.srv.n_tracks
         w2 == IF last
               THEN emit([w1 EXCEPT !.srv.current_track = NONE],
                         "end-of-playlist")
               ELSE w1
         w3 == IF last /\ handler # NoInfo
               THEN set_playlist(w2, handler, now)
               ELSE w2
     IN Commit(update_pipeline(w3, TRUE, now))
  /\ UNCHANGED <<cli, now, ctl_vars>>

----------------------------------------------------------------------------
(* Environment of the orchestrator: the pipeline and the clock *)

NextState(st, target) ==
  IF Rank(st) < Rank(target)
  THEN CASE st = "NULL" -> "PAUSED" [] st = "PAUSED" -> "PLAYING"
  ELSE CASE st = "PLAYING" -> "PAUSED" [] st = "PAUSED" -> "NULL"

\* The pipeline completes one step of a pending state change and posts the
\* state-changed message.
PipelineStep ==
  /\ pipeline.exists
  /\ pipeline.state # pipeline.target
  /\ BusRoom(1)
  /\ LET st == NextState(pipeline.state, pipeline.target)
     IN /\ pipeline' = [pipeline EXCEPT !.state = st]
        /\ bus' = Append(bus, StateMsg(st))
  /\ obs' = Quiet(obs)
  /\ UNCHANGED <<cli, srv, now, tcp, ctl_vars>>

\* The playing track reaches its end.
PipelineEos ==
  /\ pipeline.exists
  /\ pipeline.state = "PLAYING"
  /\ ~pipeline.eos
  /\ srv.base_time_offset <= MaxOffset
  /\ BusRoom(1)
  /\ pipeline' = [pipeline EXCEPT !.eos = TRUE]
  /\ bus' = Append(bus, EosMsg)
  /\ obs' = Quiet(obs)
  /\ UNCHANGED <<cli, srv, now, tcp, ctl_vars>>

Tick ==
  /\ now < MaxClock
  /\ now' = now + 1
  /\ obs' = Quiet(obs)
  /\ UNCHANGED <<cli, srv, pipeline, bus, tcp, ctl_vars>>

----------------------------------------------------------------------------

(***************************************************************************)
(* Properties of the orchestrator (checked under Spec)                     *)
(***************************************************************************)

\* The base_time published just before the i-th info of the current handler.
PrevPublished(i) ==
  IF i = 1 THEN obs.last_pub ELSE obs'.published[i - 1].base_time

\* C1 as stated: the published base_time values never decrease, and a
\* published base_time greater than the previously published one comes with
\* base_time_offset = 0.
C1_PublishedOffsetZero ==
  [][\A i \in 1..Len(obs'.published) :
       LET p == obs'.published[i]
       IN PrevPublished(i) # NONE =>
            /\ p.base_time >= PrevPublished(i)
            /\ (p.base_time > PrevPublished(i) => p.base_time_offset = 0)]_vars

\* C1 amended: the published base_time values never decrease, and whenever
\* update_pipeline gives base_time a new value it sets it to the clock time
\* and base_time_offset to 0 in the same call.
C1_MonotoneAndReset ==
  /\ [][\A i \in 1..Len(obs'.published) :
          PrevPublished(i) # NONE =>
            obs'.published[i].base_time >= PrevPublished(i)]_vars
  /\ [](\A adv \in BOOLEAN :
          LET w2 == update_pipeline(World, adv, now)
          IN w2.srv.base_time # srv.base_time =>
               /\ w2.srv.base_time = now
               /\ w2.srv.base_time_offset = 0)

\* A SyncState has just been published whose base_time is greater than the
\* one published before it, with base_time_offset 0.
C1_Witness ==
  /\ obs.published # <<>>
  /\ obs.prev_pub # NONE
  /\ obs.last_pub > obs.prev_pub
  /\ obs.published[Len(obs.published)].base_time_offset = 0

\* The EOS handler moved from track k to track k + 1 of the same playlist.
AdvancedOnEos ==
  /\ obs'.signals = <<"end-of-stream">>
  /\ srv'.current_track = srv.current_track + 1

\* C2 as stated: advancing from track k on EOS adds d_k + D to
\* base_time_offset, with last_duration in the place of an unknown d_k.
C2_AdvanceAccounting ==
  [][AdvancedOnEos =>
       LET d_k == DurationAt(srv.durations, srv.current_track)
           len == IF d_k # NONE THEN d_k ELSE srv.last_duration
       IN srv'.base_time_offset =
            srv.base_time_offset + len + srv.stream_start_delay]_vars

\* C2 amended: as C2 when d_k or last_duration is known; when both are
\* unknown the server starts afresh (base_time = now, base_time_offset = 0)
\* if it is neither stopped nor paused, and only adds D otherwise.
C2_AdvanceAccountingOrReset ==
  [][AdvancedOnEos =>
       LET d_k == DurationAt(srv.durations, srv.current_track)
           len == IF d_k # NONE THEN d_k ELSE srv.last_duration
       IN IF len # NONE
          THEN /\ srv'.base_time_offset =
                    srv.base_time_offset + len + srv.stream_start_delay
               /\ srv'.base_time = srv.base_time
          ELSE IF ~srv.stopped /\ ~srv.paused
               THEN srv'.base_time = now /\ srv'.base_time_offset = 0
               ELSE /\ srv'.base_time_offset =
                         srv.base_time_offset + srv.stream_start_delay
                    /\ srv'.base_time = srv.base_time]_vars

\* The server has just advanced past a track of unknown playlist duration,
\* using last_duration = 2: base_time_offset grew by 2 + D.
C2_Witness ==
  /\ obs.signals = <<"end-of-stream">>
  /\ srv.current_track = 1
  /\ DurationAt(srv.durations, 0) = NONE
  /\ srv.last_duration = 2
  /\ srv.base_time_offset >= 2 + srv.stream_start_delay

\* The fields of the server that place the stream on the clock.
Timing(s) == <<s.base_time, s.base_time_offset, s.last_pause_time>>

\* C15: pausing at T1 leaves base_time and base_time_offset alone and
\* records T1; while paused, with no other intent and no track ending, they
\* stay as they are; unpausing at T2 leaves base_time alone and adds T2 - T1
\* to base_time_offset; and every SyncState published by bus_cb carries the
\* paused flag and the offset the server has at that moment, so it says
\* paused = true between the two and paused = false with the new offset
\* after the unpause.
C15_PauseShiftsOffset ==
  [][/\ (SetPaused(TRUE) /\ ~srv.paused)
          => /\ srv'.paused
             /\ Timing(srv') = <<srv.base_time, srv.base_time_offset, now>>
     /\ (srv.paused /\ (BusStateChanged \/ PipelineStep \/ Tick))
          => /\ srv'.paused
             /\ Timing(srv') = Timing(srv)
     /\ (SetPaused(FALSE) /\ srv.paused)
          => /\ ~srv'.paused
             /\ srv'.base_time = srv.base_time
             /\ srv'.base_time_offset =
                  srv.base_time_offset + now - srv.last_pause_time
     /\ (BusStateChanged \/ SetPaused(TRUE) \/ SetPaused(FALSE))
          => \A i \in 1..Len(obs'.published) :
               /\ obs'.published[i].paused = srv'.paused
               /\ obs'.published[i].base_time = srv'.base_time
               /\ obs'.published[i].base_time_offset = srv'.base_time_offset
    ]_vars

\* The SyncState of an unpause that came some time after the pause.
C15_Witness ==
  /\ obs.published # <<>>
  /\ ~obs.published[1].paused
  /\ ~obs.published[1].stopped
  /\ obs.published[1].playlist.current_track = 0
  /\ obs.published[1].base_time_offset > 0
  /\ srv.last_pause_time = NONE

\* set_stopped(TRUE) on a running server: the pipeline is in NULL when the
\* call returns and the base times are untouched.
StopTakesToNull ==
  (SetStopped(TRUE) /\ ~srv.stopped)
    => /\ srv'.stopped
       /\ pipeline'.state = "NULL"
       /\ srv'.base_time = srv.base_time
       /\ srv'.base_time_offset = srv.base_time_offset

\* C16 as stated: set_stopped(TRUE) takes the pipeline to NULL, and the
\* following set_stopped(FALSE) sends it to PLAYING with base_time and
\* base_time_offset as they were.
C16_UnstopReusesBaseTimes ==
  [][/\ StopTakesToNull
     /\ (SetStopped(FALSE) /\ srv.stopped)
          => /\ ~srv'.stopped
             /\ pipeline'.target = "PLAYING"
             /\ srv'.base_time = srv.base_time
             /\ srv'.base_time_offset = srv.base_time_offset]_vars

\* C16, amended: set_stopped(FALSE) restarts the current track. If the
\* server is not paused the pipeline is sent to PLAYING with base_time set
\* to the clock's time and base_time_offset to 0; if it is paused the
\* pipeline is sent to PAUSED and the base times are kept.
C16_UnstopRestarts ==
  [][/\ StopTakesToNull
     /\ (SetStopped(FALSE) /\ srv.stopped /\ ~srv.paused)
          => /\ ~srv'.stopped
             /\ pipeline'.target = "PLAYING"
             /\ srv'.base_time = now
             /\ srv'.base_time_offset = 0
     /\ (SetStopped(FALSE) /\ srv.stopped /\ srv.paused)
          => /\ ~srv'.stopped
             /\ pipeline'.target = "PAUSED"
             /\ srv'.base_time = srv.base_time
             /\ srv'.base_time_offset = srv.base_time_offset]_vars

\* A restart some time after the first start, with an offset to lose.
C16_Witness ==
  /\ obs.unstopped
  /\ ~srv.stopped /\ ~srv.paused
  /\ pipeline.state = "NULL" /\ pipeline.target = "PLAYING"
  /\ srv.base_time = now /\ srv.base_time > 1
  /\ srv.base_time_offset = 0
  /\ srv.current_track > 0

\* What the application's end-of-playlist callback may do.
EndOfPlaylistHandlers == {NoInfo} \cup Playlists

\* C18: bus_cb emits end-of-stream once for an EOS of the pipeline; when a
\* track follows the ended one, current_track moves on by one and
\* end-of-playlist is not emitted; when the ended track was the last one,
\* end-of-playlist is emitted once, after end-of-stream, and current_track is
\* NONE (unless the callback of end-of-playlist installs a playlist).
C18_EosAccounting ==
  [][\A h \in EndOfPlaylistHandlers :
       BusEos(h) =>
         LET last == srv.current_track + 1 = srv.n_tracks
         IN /\ ~last =>
                 /\ obs'.signals = <<"end-of-stream">>
                 /\ srv.current_track # NONE
                      => srv'.current_track = srv.current_track + 1
            /\ last =>
                 /\ obs'.signals = <<"end-of-stream", "end-of-playlist">>
                 /\ h = NoInfo => srv'.current_track = NONE]_vars

\* The last track of a playlist of two has just ended.
C18_Witness ==
  /\ obs.signals = <<"end-of-stream", "end-of-playlist">>
  /\ srv.current_track = NONE
  /\ srv.n_tracks = 2
  /\ pipeline.state = "NULL"

\* C19: once the playlist has ended (current_track is NONE) the pipeline of a
\* started server is in NULL and is not asked to leave it, whatever
\* set_paused and set_stopped calls follow, until a playlist is installed.
C19_IdleAfterPlaylist ==
  (srv.server_started /\ srv.current_track = NONE)
    => pipeline.state = "NULL" /\ pipeline.target = "NULL"

\* The playlist pl keeps the current track of the server: same index, same
\* URI.
SameTrack(pl) ==
  /\ srv.n_tracks # 0
  /\ pl.current_track = srv.current_track
  /\ UriAt(pl.uris, pl.current_track) = UriAt(srv.uris, srv.current_track)

\* C21: a playlist set on a started server that keeps the index and the URI
\* of the current track leaves the pipeline, base_time and base_time_offset
\* alone and publishes one SyncState with the new track listing; a playlist
\* that changes either takes the pipeline to NULL and runs
\* update_pipeline(FALSE): the new URI is programmed, the state the flags ask
\* for is requested, the base time restarts when playing, and nothing is
\* published by the call.
C21_PlaylistKeepsOrRestarts ==
  [][\A pl \in Playlists :
       (/\ srv.server_started
        /\ srv'.uris = pl.uris /\ srv'.durations = pl.durations
        /\ SetPlaylist(pl)) =>
         IF SameTrack(pl)
         THEN /\ pipeline' = pipeline
              /\ srv'.base_time = srv.base_time
              /\ srv'.base_time_offset = srv.base_time_offset
              /\ Len(obs'.published) = 1
              /\ obs'.published[1].playlist =
                   playlist_new(pl.uris, pl.durations, pl.current_track)
         ELSE /\ pipeline'.state = "NULL"
              /\ pipeline'.target = new_state_for(srv)
              /\ pipeline'.uri = UriAt(pl.uris, pl.current_track)
              /\ (~srv.stopped /\ ~srv.paused)
                   => srv'.base_time = now /\ srv'.base_time_offset = 0
              /\ obs'.published = <<>>]_vars

\* A new listing was published while the track went on playing, some time
\* after it started.
C21_Witness ==
  /\ obs.relisted
  /\ Len(obs.published) = 1
  /\ pipeline.state = "PLAYING"
  /\ srv.base_time < now

\* C22: a track whose playlist duration is 0 has an unknown duration: when
\* the server advances past it, base_time_offset grows by last_duration and
\* the stream start delay, not by 0 and the delay (and the server starts
\* afresh when last_duration is unknown too).
C22_ZeroDurationIsUnknown ==
  [][(AdvancedOnEos /\ DurationAt(srv.durations, srv.current_track) = 0) =>
       IF srv.last_duration # NONE
       THEN srv'.base_time_offset =
              srv.base_time_offset + srv.last_duration
                + srv.stream_start_delay
       ELSE (~srv.stopped /\ ~srv.paused)
              => srv'.base_time = now /\ srv'.base_time_offset = 0]_vars

\* bus_cb publishes a SyncState when it handles the state-changed message m
\* with the flags the server has now.
Publishes(m) ==
  /\ m.type = "state-changed"
  /\ \/ srv.paused /\ m.new_state = "PAUSED"
     \/ srv.stopped /\ m.new_state = "NULL"
     \/ m.new_state = "PLAYING"

\* A call of set_sync_info is on its way: a message on the bus will make
\* bus_cb publish, or the pipeline has a state change to complete.
BroadcastPending ==
  \/ \E i \in 1..Len(bus) : Publishes(bus[i])
  \/ pipeline.state # pipeline.target

\* C23, for the mutation "reaching the end of the playlist": when bus_cb has
\* set current_track to NONE and emitted end-of-playlist, the one call of
\* set_sync_info that carries this state has been made by the handler or is
\* on its way.
C23_EndOfPlaylistBroadcast ==
  (/\ obs.signals = <<"end-of-stream", "end-of-playlist">>
   /\ srv.current_track = NONE)
    => Len(obs.published) = 1 \/ BroadcastPending

\* C26: set_paused(p) on a server whose paused flag is p, and set_stopped(s)
\* on a server whose stopped flag is s, change nothing (base_time,
\* base_time_offset, last_pause_time, current_track and every other field,
\* the pipeline and its bus) and publish nothing.
C26_RepeatedIntentIgnored ==
  [][\A b \in BOOLEAN :
       (\/ srv.paused = b /\ SetPaused(b)
        \/ srv.stopped = b /\ SetStopped(b))
         => /\ srv' = srv
            /\ pipeline' = pipeline
            /\ bus' = bus
            /\ obs'.published = <<>>]_vars

\* A server paused some time ago on which set_paused(TRUE) has just returned:
\* the call leaves exactly this state.
C26_Witness ==
  /\ pipeline.exists
  /\ srv.paused
  /\ srv.last_pause_time # NONE
  /\ srv.last_pause_time < now
  /\ srv.base_time_offset > 0
  /\ obs = Quiet(obs)

\* C37: the URI update_pipeline programs into the pipeline is always read at
\* a valid index of the track list, never at current_track = NONE or beyond
\* n_tracks.
C37_UriReadInRange == pipeline.uri # Garbage

\* C38: when the end-of-playlist handler installs a playlist, the EOS
\* handling ends with the server on that playlist's current track, started
\* afresh: base_time_offset is 0.
C38_LoopStartsAtCurrentTrack ==
  [][\A h \in Playlists :
       (/\ srv.current_track + 1 = srv.n_tracks
        /\ srv'.uris = h.uris
        /\ srv'.durations = h.durations
        /\ BusEos(h))
       => /\ srv'.current_track = h.current_track
          /\ srv'.base_time_offset = 0]_vars

\* C39: while the stopped flag is set the server's pipeline is in NULL and is
\* not asked for any other state.
C39_StoppedServerStaysNull ==
  (pipeline.exists /\ srv.stopped)
    => pipeline.state = "NULL" /\ pipeline.target = "NULL"

\* C12: gst_sync_server_start without a playlist returns FALSE with the
\* error set, and after any failed start the server is not marked started,
\* its control server is not listening, and neither pipeline nor clock
\* provider is left.
C12_FailedStartLeavesNothing ==
  /\ (obs.start.ret # "none" /\ srv.n_tracks = 0) => obs.start.ret = "FALSE"
  /\ obs.start.ret = "FALSE" =>
       /\ obs.start.error
       /\ ~srv.server_started
       /\ ~tcp.started
       /\ ~pipeline.exists
       /\ ~srv.clock_provider

\* A start without a playlist has just failed.
C12_Witness == obs.start.ret = "FALSE" /\ srv.n_tracks = 0

(***************************************************************************)
(* The TCP control server: sync-control-tcp-server.c                       *)
(***************************************************************************)

MaxPub == 2        \* sync-info values the orchestrator sets in SpecCtl

\* The connections the model accepts: one session and a concurrent other one.
Sessions == {1, 2}

NULL == "<null>"

\* What a client can write as the first data of a connection, by what the
\* parser makes of it: json (json_from_string succeeds), config (the object
\* has a "config" member that deserialises as a{sv}), id (the string member
\* "id", NULL when it is missing or not a string).
Hellos ==
  { [json |-> FALSE, config |-> FALSE, id |-> NULL],
    [json |-> TRUE, config |-> FALSE, id |-> "c1"],
    [json |-> TRUE, config |-> TRUE, id |-> NULL],
    [json |-> TRUE, config |-> TRUE, id |-> "c1"] }

\* A syntactically valid ClientHello: { "id": string, "config": { ... } }
ValidHello(h) == h.json /\ h.config /\ h.id # NULL

\* get_client_info that accepts a hello without a config.
get_client_info_noconfig(h) ==
  IF ~h.json THEN [id |-> NULL, joined |-> FALSE]
  ELSE [id |-> h.id, joined |-> TRUE]

\* get_client_info: the id it returns (NULL: reject) and whether it emitted
\* client-joined on the way.
get_client_info(h) ==
  IF ~h.json THEN [id |-> NULL, joined |-> FALSE]
  ELSE IF ~h.config THEN [id |-> NULL, joined |-> FALSE]
  ELSE [id |-> h.id, joined |-> TRUE]

NewSession ==
  [pc |-> "idle", greeted |-> FALSE,
   hello |-> [json |-> FALSE, config |-> FALSE, id |-> NULL],
   id |-> NULL, out |-> 0, seq0 |-> 0,
   pipe |-> 0, connected |-> FALSE, input |-> "none", sent |-> <<>>]

\* gst_sync_client_init and gst_sync_control_tcp_client_init
InitCli ==
  cli = [phase |-> "new", conn |-> FALSE, hello_pending |-> FALSE,
         reading |-> FALSE, ctl_info |-> NoInfo, info |-> NoInfo,
         clock |-> FALSE, watch |-> FALSE, synchronised |-> FALSE,
         seek_state |-> "NEED_SEEK", seek_offset |-> 0, last_duration |-> 0,
         pl |-> [state |-> "NULL", target |-> "NULL", uri |-> "",
                 base_time |-> NONE, seeking |-> FALSE, seek_pos |-> 0,
                 eos |-> FALSE],
         msgs |-> <<>>,
         id |-> NULL, config |-> NULL, bound |-> FALSE,
         ctl_id |-> NULL, ctl_config |-> NULL,
         hello |-> [id |-> NULL, config |-> NULL],
         main_pc |-> "idle", str_pc |-> "idle", lock |-> "none", t |-> 0]

InitCtlIdle ==
  /\ info_seq = 0
  /\ notifying = FALSE
  /\ sess = [s \in Sessions |-> NewSession]
  /\ ctl_ev = {}

\* gst_sync_control_tcp_server_start has been called on a fresh object.
InitCtl ==
  /\ InitSrv!1 /\ InitSrv!2 /\ InitSrv!3 /\ InitSrv!4 /\ InitSrv!6
  /\ tcp = [exists |-> TRUE, started |-> TRUE, info |-> NoInfo]
  /\ InitCtlIdle
  /\ InitCli

\* The sync-info values set in SpecCtl.
InfoSamples ==
  { [version |-> DefaultVersion,
     playlist |-> playlist_new(<<"a">>, <<1>>, 0), base_time |-> 1,
     base_time_offset |-> 0, latency |-> Latency,
     stream_start_delay |-> StreamStartDelay, stopped |-> FALSE,
     paused |-> p] : p \in BOOLEAN }

\* gst_sync_control_tcp_server_set_property, case PROP_SYNC_INFO: the value is
\* stored under the writer lock; notify::sync-info is emitted afterwards.
CtlSetSyncInfo(v) ==
  /\ tcp.started
  /\ ~notifying
  /\ info_seq < MaxPub
  /\ tcp' = [tcp EXCEPT !.info = v]
  /\ info_seq' = info_seq + 1
  /\ notifying' = TRUE
  /\ UNCHANGED <<cli, srv, pipeline, bus, now, obs, sess, ctl_ev>>

\* sync_info_notify, run for every session that has connected its handler:
\* one byte is written into the session's pipe.
CtlNotify ==
  /\ notifying
  /\ notifying' = FALSE
  /\ sess' = [s \in Sessions |->
               IF sess[s].connected THEN [sess[s] EXCEPT !.pipe = @ + 1]
               ELSE sess[s]]
  /\ UNCHANGED <<cli, srv_vars, info_seq, ctl_ev>>

\* gst_sync_control_tcp_server_stop
CtlStop ==
  /\ tcp.started
  /\ ~notifying
  /\ tcp' = [tcp EXCEPT !.started = FALSE]
  /\ UNCHANGED <<cli, srv, pipeline, bus, now, obs, ctl_vars>>

\* The socket service accepts a connection and runs run_cb on a thread;
\* sessions are numbered in the order in which they are accepted.
Accept(s) ==
  /\ tcp.started
  /\ sess[s].pc = "idle"
  /\ \A o \in Sessions : o < s => sess[o].pc # "idle"
  /\ sess' = [sess EXCEPT ![s].pc = "accepted"]
  /\ UNCHANGED <<cli, srv_vars, info_seq, notifying, ctl_ev>>

\* run_cb up to "if (!d.id) goto done": the first data h is read and parsed.
RunCbHello(s, h) ==
  /\ sess[s].pc = "accepted"
  /\ LET r == get_client_info(h)
     IN /\ sess' = [sess EXCEPT ![s].greeted = TRUE,
                                ![s].hello = h, ![s].id = r.id,
                                ![s].pc = IF r.id = NULL THEN "closed"
                                          ELSE "hello_done"]
        /\ ctl_ev' = IF r.joined
                     THEN ctl_ev \cup {[ev |-> "client-joined", s |-> s,
                                        id |-> r.id]}
                     ELSE ctl_ev
  /\ UNCHANGED <<cli, srv_vars, info_seq, notifying>>

\* send_sync_info serialising, for an update, the first SyncState that was
\* ever set instead of the current one.
Serialise_first(se, next_pc, skip_pc) ==
  IF tcp.info = NoInfo THEN [se EXCEPT !.pc = skip_pc]
  ELSE [se EXCEPT !.out = IF next_pc = "update_send" THEN 1 ELSE info_seq,
                  !.pc = next_pc]

\* send_sync_info, first half: under the reader lock, return FALSE when there
\* is no info, else serialise it.
Serialise(se, next_pc, skip_pc) ==
  IF tcp.info = NoInfo THEN [se EXCEPT !.pc = skip_pc]
  ELSE [se EXCEPT !.out = info_seq, !.pc = next_pc]

\* send_sync_info, second half: g_socket_send of the serialised info.
SocketSend(se, via, next_pc) ==
  [se EXCEPT !.sent = Append(@, [seq |-> se.out, via |-> via]),
             !.out = 0,
             !.pc = next_pc]

\* run_cb without the initial send_sync_info.
RunCbInitialInfo_nosend(s) ==
  /\ sess[s].pc = "hello_done"
  /\ sess' = [sess EXCEPT ![s].seq0 = info_seq, ![s].pc = "attach"]
  /\ UNCHANGED <<cli, srv_vars, info_seq, notifying, ctl_ev>>

\* run_cb: "send_sync_info (self, socket)" right after the hello
RunCbInitialInfo(s) ==
  /\ sess[s].pc = "hello_done"
  /\ sess' = [sess EXCEPT ![s] =
               [Serialise(@, "initial_send", "attach") EXCEPT
                  !.seq0 = info_seq]]
  /\ UNCHANGED <<cli, srv_vars, info_seq, notifying, ctl_ev>>

RunCbInitialSend(s) ==
  /\ sess[s].pc = "initial_send"
  /\ sess' = [sess EXCEPT ![s] = SocketSend(@, "initial", "attach")]
  /\ UNCHANGED <<cli, srv_vars, info_seq, notifying, ctl_ev>>

\* run_cb: the socket source, the pipe and the notify::sync-info handler are
\* set up, then the loop runs.
RunCbAttach(s) ==
  /\ sess[s].pc = "attach"
  /\ sess' = [sess EXCEPT ![s].connected = TRUE, ![s].pc = "loop"]
  /\ UNCHANGED <<cli, srv_vars, info_seq, notifying, ctl_ev>>

\* sync_info_updated: one byte is read from the pipe, then send_sync_info
SyncInfoUpdated(s) ==
  /\ sess[s].pc = "loop"
  /\ sess[s].pipe > 0
  /\ sess' = [sess EXCEPT ![s] =
               Serialise([@ EXCEPT !.pipe = @ - 1], "update_send", "loop")]
  /\ UNCHANGED <<cli, srv_vars, info_seq, notifying, ctl_ev>>

SyncInfoUpdatedSend(s) ==
  /\ sess[s].pc = "update_send"
  /\ sess' = [sess EXCEPT ![s] = SocketSend(@, "update", "loop")]
  /\ UNCHANGED <<cli, srv_vars, info_seq, notifying, ctl_ev>>

\* The client writes more data, closes the connection, or the socket fails:
\* the socket source of the session becomes ready.
ClientInput(s) ==
  /\ sess[s].pc \in {"hello_done", "initial_send", "attach", "loop",
                      "update_send"}
  /\ sess[s].input = "none"
  /\ sess' = [sess EXCEPT ![s].input = "pending"]
  /\ UNCHANGED <<cli, srv_vars, info_seq, notifying, ctl_ev>>

\* The GIOCondition the source is dispatched with: bytes and EOF make the
\* socket readable, a failure raises G_IO_ERR.
Conditions == {"G_IO_IN", "G_IO_ERR"}

\* socket_error_cb that only reacts to G_IO_ERR.
socket_error_cb_erronly(se, cond) ==
  IF cond = "G_IO_ERR" THEN [se EXCEPT !.pc = "quit", !.input = "handled"]
  ELSE [se EXCEPT !.input = "handled"]

\* socket_error_cb: whatever the condition, the loop is quit; returning FALSE
\* removes the source.
socket_error_cb(se, cond) == [se EXCEPT !.pc = "quit", !.input = "handled"]

\* The socket source of the session's main loop is dispatched.
SocketErrorCb(s) ==
  /\ sess[s].pc = "loop"
  /\ sess[s].input = "pending"
  /\ \E cond \in Conditions : sess' = [sess EXCEPT ![s] = socket_error_cb(@, cond)]
  /\ UNCHANGED <<cli, srv_vars, info_seq, notifying, ctl_ev>>

\* run_cb after g_main_loop_run returns: the handler is disconnected, the
\* sources destroyed, client-left emitted, the pipe closed, the connection
\* dropped.
RunCbLeave(s) ==
  /\ sess[s].pc = "quit"
  /\ sess' = [sess EXCEPT ![s].connected = FALSE, ![s].pipe = 0,
                          ![s].pc = "closed"]
  /\ ctl_ev' = ctl_ev \cup {[ev |-> "client-left", s |-> s,
                              id |-> sess[s].id]}
  /\ UNCHANGED <<cli, srv_vars, info_seq, notifying>>

SessionStep(s) ==
  \/ \E h \in Hellos : RunCbHello(s, h)
  \/ RunCbInitialInfo(s)
  \/ RunCbInitialSend(s)
  \/ RunCbAttach(s)
  \/ SyncInfoUpdated(s)
  \/ SyncInfoUpdatedSend(s)
  \/ SocketErrorCb(s)
  \/ RunCbLeave(s)

NextCtl ==
  \/ \E v \in InfoSamples : CtlSetSyncInfo(v)
  \/ CtlNotify
  \/ CtlStop
  \/ \E s \in Sessions : Accept(s)
  \/ \E s \in Sessions : SessionStep(s)
  \/ \E s \in Sessions : ClientInput(s)

SpecCtl == InitCtl /\ [][NextCtl]_vars

\* The session threads and the notifying thread keep running.
SpecCtlFair ==
  /\ SpecCtl
  /\ WF_vars(CtlNotify)
  /\ \A s \in Sessions : WF_vars(SessionStep(s))

(***************************************************************************)
(* Properties of the control server (checked under SpecCtl / SpecCtlFair)  *)
(***************************************************************************)

Accepted(s) == sess[s].greeted /\ sess[s].id # NULL
Rejected(s) == sess[s].greeted /\ ~ValidHello(sess[s].hello)
LastSent(s) ==
  IF sess[s].sent = <<>> THEN 0 ELSE sess[s].sent[Len(sess[s].sent)].seq

\* The session sits in its main loop with nothing left to dispatch.
Quiescent(s) ==
  /\ sess[s].pc = "loop"
  /\ sess[s].pipe = 0
  /\ sess[s].input = "none"
  /\ ~notifying

\* C3: once set_sync_info has returned, an accepted and still connected
\* session transmits that version or a newer one; stated on finite runs: a
\* session that has nothing left to dispatch has transmitted the latest
\* version set.
C3_LatestDelivered ==
  \A s \in Sessions :
    (Accepted(s) /\ Quiescent(s) /\ info_seq > 0) => LastSent(s) = info_seq

\* C4: the frames sent on a session are the versions set while it was
\* attached, each once and in order: consecutive frames carry consecutive
\* versions.
C4_ExactlyOnceInOrder ==
  \A s \in Sessions :
    \A i \in 1..(Len(sess[s].sent) - 1) :
      sess[s].sent[i + 1].seq = sess[s].sent[i].seq + 1

\* C5: a session whose first data is not a valid ClientHello is closed and
\* no SyncState is ever sent on it, initial or broadcast.
C5_RejectedGetsNothing ==
  \A s \in Sessions :
    Rejected(s) =>
      /\ sess[s].pc = "closed"
      /\ sess[s].sent = <<>>
      /\ ~sess[s].connected
      /\ sess[s].pipe = 0

\* A hello was rejected although a SyncState was there to be sent and the
\* other session was sent frames.
C5_Witness ==
  \E s, o \in Sessions :
    /\ Rejected(s)
    /\ info_seq = MaxPub
    /\ ~notifying
    /\ Len(sess[o].sent) >= 2

\* The session is past the initial send_sync_info of run_cb.
PastInitialSend(s) ==
  Accepted(s) /\ sess[s].pc \in {"attach", "loop", "update_send", "quit",
                                 "closed"}

\* C6 as stated: an accepted client is sent the current SyncState as the
\* first frame of its session, whenever it connects.
C6_InitialFrameAlways ==
  \A s \in Sessions :
    PastInitialSend(s) =>
      /\ sess[s].sent # <<>>
      /\ sess[s].sent[1].via = "initial"

\* C6 amended: an accepted client that connects when a SyncState has been
\* set is sent the then current SyncState as the first frame of its session,
\* before any broadcast.
C6_InitialFrameIfSet ==
  \A s \in Sessions :
    (PastInitialSend(s) /\ sess[s].seq0 > 0) =>
      /\ sess[s].sent # <<>>
      /\ sess[s].sent[1] = [seq |-> sess[s].seq0, via |-> "initial"]

\* A session got the second version as its initial frame.
C6_Witness ==
  \E s \in Sessions :
    /\ PastInitialSend(s)
    /\ sess[s].seq0 = 2
    /\ sess[s].sent[1] = [seq |-> 2, via |-> "initial"]

Left(s) == [ev |-> "client-left", s |-> s, id |-> sess[s].id] \in ctl_ev

\* C7: after the hello is accepted, any byte, EOF or error on the socket
\* ends the session: client-left is emitted for its id, the connection is
\* closed, and from the moment the loop is quit no frame is sent on it.
C7_InputEndsSession ==
  /\ \A s \in Sessions :
       (sess[s].input # "none") ~>
         (sess[s].pc = "closed" /\ ~sess[s].connected /\ Left(s))
  /\ [][\A s \in Sessions :
          sess[s].pc \in {"quit", "closed"} =>
            /\ sess'[s].sent = sess[s].sent
            /\ sess'[s].pc \in {"quit", "closed"}]_vars

\* A session that was being sent broadcasts was closed on input from its
\* client while the other session stays attached.
C7_Witness ==
  \E s, o \in Sessions :
    /\ sess[s].input = "handled"
    /\ sess[s].pc = "closed"
    /\ sess[o].pc = "loop"
    /\ Left(s)
    /\ \E i \in 1..Len(sess[s].sent) : sess[s].sent[i].via = "update"

\* C8: a session whose hello is not a valid ClientHello raises no
\* client-joined event.
C8_RejectedNotJoined ==
  \A s \in Sessions :
    Rejected(s) => ~(\E e \in ctl_ev : e.ev = "client-joined" /\ e.s = s)

\* C9: after the control server's stop has returned every session is
\* disconnected; stated on finite runs: no session is left sitting in its
\* loop with nothing to dispatch.
C9_StopDisconnects ==
  ~tcp.started => \A s \in Sessions : ~Quiescent(s)

----------------------------------------------------------------------------

(***************************************************************************)
(* The client: sync-client.c and sync-control-tcp-client.c                 *)
(***************************************************************************)

SeekTolerance == 1     \* DEFAULT_SEEK_TOLERANCE

CliStateMsg(old_state, new_state) ==
  [type |-> "state-changed", old_state |-> old_state, new_state |-> new_state]

\* The SyncStates of this protocol version a server can put on the wire in
\* SpecCli.
CliInfos ==
  { [version |-> DefaultVersion,
     playlist |-> playlist_new(<<"a", "b">>, <<NONE, 1>>, ct),
     base_time |-> bt, base_time_offset |-> 0, latency |-> Latency,
     stream_start_delay |-> StreamStartDelay, stopped |-> st, paused |-> pa] :
       ct \in {0, 1}, bt \in {1, 2}, st \in BOOLEAN, pa \in BOOLEAN }

\* A well-formed SyncState of a later protocol version: json_gobject_from_data
\* stores whatever "version" the frame carries.
FutureInfo ==
  [version |-> DefaultVersion + 1,
   playlist |-> playlist_new(<<"a", "b">>, <<NONE, 1>>, 0),
   base_time |-> 1, base_time_offset |-> 0, latency |-> Latency,
   stream_start_delay |-> StreamStartDelay, stopped |-> FALSE,
   paused |-> FALSE]

\* The SyncStates a server publishes once its playlist has ended: get_sync_info
\* copies current_track = -1 into the playlist.
EndOfPlaylistInfos ==
  { [version |-> DefaultVersion,
     playlist |-> playlist_new(<<"a", "b">>, <<NONE, 1>>, NONE),
     base_time |-> 1, base_time_offset |-> 0, latency |-> Latency,
     stream_start_delay |-> StreamStartDelay, stopped |-> FALSE,
     paused |-> pa] : pa \in BOOLEAN }

\* The SyncStates a playing server publishes for a playlist whose durations
\* are known: on its first track, and after its advance to the second.
KnownDurationInfos ==
  { [version |-> DefaultVersion,
     playlist |-> playlist_new(<<"a", "b">>, <<1, 1>>, ct),
     base_time |-> 1,
     base_time_offset |-> IF ct = 0 THEN 0 ELSE 1 + StreamStartDelay,
     latency |-> Latency, stream_start_delay |-> StreamStartDelay,
     stopped |-> FALSE, paused |-> FALSE] : ct \in {0, 1} }

\* The SyncState a playing server publishes after it was paused for one tick
\* and unpaused: only base_time_offset has grown.
UnpausedInfo ==
  [version |-> DefaultVersion,
   playlist |-> playlist_new(<<"a", "b">>, <<NONE, 1>>, 0),
   base_time |-> 1, base_time_offset |-> 1, latency |-> Latency,
   stream_start_delay |-> StreamStartDelay, stopped |-> FALSE,
   paused |-> FALSE]

\* What a read on the control connection can complete with.
Frames ==
  {[kind |-> "eof"], [kind |-> "garbage"]}
    \cup {[kind |-> "info", info |-> i] :
            i \in CliInfos \cup EndOfPlaylistInfos \cup KnownDurationInfos
                    \cup {FutureInfo, UnpausedInfo}}

\* gst_element_set_state on a playbin whose bus is not flushed on the way to
\* NULL: the messages of the downward transitions stay queued.
cli_set_state_keepbus(c, new_state) ==
  IF new_state = "NULL"
  THEN [c EXCEPT !.pl.state = "NULL", !.pl.target = "NULL",
                 !.pl.eos = FALSE, !.pl.seeking = FALSE, !.pl.seek_pos = 0,
                 !.msgs = @ \o
                    (IF c.pl.state = "PLAYING"
                     THEN <<CliStateMsg("PLAYING", "PAUSED")>> ELSE <<>>)
                    \o (IF c.pl.state \in {"PLAYING", "PAUSED"}
                        THEN <<CliStateMsg("PAUSED", "READY")>> ELSE <<>>)]
  ELSE [c EXCEPT !.pl.target = new_state]

\* gst_element_set_state on the client's playbin: going to NULL is
\* synchronous and flushes the bus (auto-flush-bus is left at its default),
\* every other change is completed by the pipeline later.
cli_set_state(c, new_state) ==
  IF new_state = "NULL"
  THEN [c EXCEPT !.pl.state = "NULL", !.pl.target = "NULL",
                 !.pl.eos = FALSE, !.pl.seeking = FALSE, !.pl.seek_pos = 0,
                 !.msgs = <<>>]
  ELSE [c EXCEPT !.pl.target = new_state]

\* set_base_time (sync-client.c)
cli_set_base_time(c) ==
  [c EXCEPT !.pl.base_time =
     c.info.base_time + c.info.base_time_offset + c.seek_offset]

\* update_pipeline (sync-client.c), the advance leaving out the stream start
\* delay
cli_update_pipeline_nodelay(c, advance) ==
  LET i == c.info
      ct == i.playlist.current_track
      d == DurationAt(i.playlist.durations, ct)
      skip == IF d # NONE THEN d ELSE c.last_duration
      i1 == IF advance
            THEN [i EXCEPT !.playlist.current_track = ct + 1,
                           !.base_time_offset = @ + skip]
            ELSE i
      c1 == [c EXCEPT !.info = i1,
                      !.pl.uri = UriAt(i1.playlist.uris,
                                       i1.playlist.current_track)]
      c2 == [cli_set_state(c1, "PAUSED") EXCEPT
               !.seek_offset = 0, !.seek_state = "NEED_SEEK"]
  IN IF advance /\ ct + 1 = Len(i.playlist.uris) THEN c
     ELSE IF advance /\ d = NONE /\ c.last_duration = NONE THEN c
     ELSE IF i1.stopped THEN cli_set_state(c1, "NULL")
     ELSE IF ~i1.paused
          THEN cli_set_state(cli_set_base_time(c2), "PLAYING")
          ELSE c2

\* update_pipeline (sync-client.c)
cli_update_pipeline(c, advance) ==
  LET i == c.info
      ct == i.playlist.current_track
      d == DurationAt(i.playlist.durations, ct)
      skip == IF d # NONE THEN d ELSE c.last_duration
      i1 == IF advance
            THEN [i EXCEPT !.playlist.current_track = ct + 1,
                           !.base_time_offset =
                              @ + skip + i.stream_start_delay]
            ELSE i
      c1 == [c EXCEPT !.info = i1,
                      !.pl.uri = UriAt(i1.playlist.uris,
                                       i1.playlist.current_track)]
      c2 == [cli_set_state(c1, "PAUSED") EXCEPT
               !.seek_offset = 0, !.seek_state = "NEED_SEEK"]
  IN IF advance /\ ct + 1 = Len(i.playlist.uris) THEN c
     ELSE IF advance /\ d = NONE /\ c.last_duration = NONE THEN c
     ELSE IF i1.stopped THEN cli_set_state(c1, "NULL")
     ELSE IF ~i1.paused
          THEN cli_set_state(cli_set_base_time(c2), "PLAYING")
          ELSE c2

\* update_sync_info with the paused flag compared before the current track
update_sync_info_pausedfirst(c, info) ==
  LET old == c.info
      c1 == [c EXCEPT !.info = info]
  IN IF old = NoInfo
     THEN [c1 EXCEPT !.clock = TRUE, !.watch = TRUE]
     ELSE IF old.stopped # info.stopped
     THEN cli_update_pipeline(cli_set_state(c1, "NULL"), FALSE)
     ELSE IF old.paused # info.paused
     THEN IF info.paused THEN cli_set_state(c1, "PAUSED")
          ELSE cli_set_state(cli_set_base_time(c1), "PLAYING")
     ELSE IF old.playlist.current_track # info.playlist.current_track
     THEN cli_update_pipeline(cli_set_state(c1, "NULL"), FALSE)
     ELSE IF old.base_time # info.base_time
     THEN cli_update_pipeline(cli_set_state(c1, "NULL"), FALSE)
     ELSE c1

\* update_sync_info (sync-client.c)
update_sync_info(c, info) ==
  LET old == c.info
      c1 == [c EXCEPT !.info = info]
  IN IF old = NoInfo
     THEN [c1 EXCEPT !.clock = TRUE, !.watch = TRUE]
     ELSE IF old.stopped # info.stopped
     THEN cli_update_pipeline(cli_set_state(c1, "NULL"), FALSE)
     ELSE IF old.playlist.current_track # info.playlist.current_track
     THEN cli_update_pipeline(cli_set_state(c1, "NULL"), FALSE)
     ELSE IF old.paused # info.paused
     THEN IF info.paused THEN cli_set_state(c1, "PAUSED")
          ELSE cli_set_state(cli_set_base_time(c1), "PLAYING")
     ELSE IF old.base_time # info.base_time
     THEN cli_update_pipeline(cli_set_state(c1, "NULL"), FALSE)
     ELSE c1

\* read_done_cb (sync-control-tcp-client.c), with the notify::sync-info
\* handler sync_info_notify of sync-client.c
read_done_cb(c, frame) ==
  IF frame.kind = "eof" THEN [c EXCEPT !.reading = FALSE]
  ELSE IF frame.kind = "garbage"
  THEN [c EXCEPT !.ctl_info = NoInfo, !.reading = FALSE]
  ELSE [update_sync_info(c, frame.info) EXCEPT !.ctl_info = frame.info]

\* bus_cb, case GST_MESSAGE_ELEMENT, keeping the synchronised mark after a
\* wait that timed out
bus_cb_element_keepmark(c, synchronised, waited) ==
  IF c.synchronised \/ ~synchronised THEN c
  ELSE IF ~waited THEN [c EXCEPT !.synchronised = TRUE]
  ELSE cli_update_pipeline([c EXCEPT !.synchronised = TRUE], FALSE)

\* bus_cb, case GST_MESSAGE_ELEMENT: a gst-netclock-statistics message
\* saying synchronised, then gst_clock_wait_for_sync returning waited.
bus_cb_element(c, synchronised, waited) ==
  IF c.synchronised \/ ~synchronised THEN c
  ELSE IF ~waited THEN [c EXCEPT !.synchronised = FALSE]
  ELSE cli_update_pipeline([c EXCEPT !.synchronised = TRUE], FALSE)

\* bus_cb, case GST_MESSAGE_STATE_CHANGED, with the position compared as an
\* unsigned number: a position before the start of the stream is a huge one.
bus_cb_state_changed_unsigned(c, m, t, seek_ok, dur) ==
  LET cur_pos == t - c.info.base_time - c.info.base_time_offset
      c1 == IF (cur_pos > SeekTolerance \/ cur_pos < 0) /\ seek_ok
            THEN [c EXCEPT !.seek_state = "IN_SEEK", !.pl.seeking = TRUE,
                           !.pl.seek_pos = cur_pos]
            ELSE [c EXCEPT !.seek_state = "DONE_SEEK"]
  IN IF c.seek_state # "NEED_SEEK" THEN c
     ELSE IF m.old_state # "PAUSED" /\ m.new_state # "PLAYING" THEN c
     ELSE [c1 EXCEPT !.last_duration = dur]

\* bus_cb, case GST_MESSAGE_STATE_CHANGED
bus_cb_state_changed(c, m, t, seek_ok, dur) ==
  LET cur_pos == t - c.info.base_time - c.info.base_time_offset
      c1 == IF cur_pos > SeekTolerance /\ seek_ok
            THEN [c EXCEPT !.seek_state = "IN_SEEK", !.pl.seeking = TRUE,
                           !.pl.seek_pos = cur_pos]
            ELSE [c EXCEPT !.seek_state = "DONE_SEEK"]
  IN IF c.seek_state # "NEED_SEEK" THEN c
     ELSE IF m.old_state # "PAUSED" /\ m.new_state # "PLAYING" THEN c
     ELSE [c1 EXCEPT !.last_duration = dur]

\* bus_cb, case GST_MESSAGE_ASYNC_DONE, with the base time applied before the
\* queried position is stored.
bus_cb_async_done_nooffset(c, pos_ok) ==
  IF c.seek_state # "IN_SEEK" THEN c
  ELSE IF pos_ok
       THEN [cli_set_base_time(c) EXCEPT !.seek_offset = c.pl.seek_pos,
                                         !.seek_state = "DONE_SEEK"]
       ELSE [c EXCEPT !.seek_state = "DONE_SEEK"]

\* bus_cb, case GST_MESSAGE_ASYNC_DONE
bus_cb_async_done(c, pos_ok) ==
  IF c.seek_state # "IN_SEEK" THEN c
  ELSE IF pos_ok
       THEN [cli_set_base_time([c EXCEPT !.seek_offset = c.pl.seek_pos])
               EXCEPT !.seek_state = "DONE_SEEK"]
       ELSE [c EXCEPT !.seek_state = "DONE_SEEK"]

\* bus_cb, case GST_MESSAGE_EOS
bus_cb_eos(c) == cli_update_pipeline(cli_set_state(c, "NULL"), TRUE)

\* gst_sync_client_stop: gst_sync_control_tcp_client_stop closes the
\* connection, nothing else is touched.
gst_sync_client_stop(c) == [c EXCEPT !.conn = FALSE, !.phase = "stopped"]

\* Values the application gives to the id and config properties.
Ids == {"c1", "c2"}
Configs == {"k1", "k2"}

\* generate_client_id: "gst-sync-client-" and a random number
GeneratedId == "gst-sync-client-x"

\* The empty dictionary make_client_info sends for a NULL config.
EmptyConfig == "{}"

\* make_client_info: what the ClientHello says
make_client_info(id, config) ==
  [id |-> id, config |-> IF config = NULL THEN EmptyConfig ELSE config]

\* gst_sync_control_tcp_client_set_property, cases PROP_ID and PROP_CONFIG:
\* refused with a warning once the connection exists.
ctl_set_id(c, v) == IF c.conn THEN c ELSE [c EXCEPT !.ctl_id = v]
ctl_set_config(c, v) == IF c.conn THEN c ELSE [c EXCEPT !.ctl_config = v]

\* gst_sync_client_set_property, cases PROP_ID and PROP_CONFIG: the value is
\* stored, and the property binding made in case PROP_CONTROL_CLIENT hands
\* it on to the control client.
client_set_id(c, v) ==
  LET c1 == [c EXCEPT !.id = v]
  IN IF c.bound THEN ctl_set_id(c1, v) ELSE c1

client_set_config(c, v) ==
  LET c1 == [c EXCEPT !.config = v]
  IN IF c.bound THEN ctl_set_config(c1, v) ELSE c1

\* gst_sync_client_start: the control client is created and bound
\* (G_BINDING_SYNC_CREATE copies id and config), a missing id is generated,
\* the control client connects (or fails to) and starts writing the
\* ClientHello.
gst_sync_client_start(c, ok) ==
  LET c1 == ctl_set_config(ctl_set_id([c EXCEPT !.bound = TRUE], c.id),
                           c.config)
      c2 == IF c1.id = NULL THEN client_set_id(c1, GeneratedId) ELSE c1
  IN IF ok
     THEN [c2 EXCEPT !.phase = "started", !.conn = TRUE,
                     !.hello_pending = TRUE,
                     !.hello = make_client_info(c2.ctl_id, c2.ctl_config)]
     ELSE [c2 EXCEPT !.phase = "failed"]

CliStart(ok) ==
  /\ cli.phase = "new"
  /\ cli' = gst_sync_client_start(cli, ok)
  /\ UNCHANGED <<srv_vars, ctl_vars>>

\* g_object_set (client, "id", v, NULL)
SetId(v) ==
  /\ cli' = client_set_id(cli, v)
  /\ UNCHANGED <<srv_vars, ctl_vars>>

\* g_object_set (client, "config", v, NULL)
SetConfig(v) ==
  /\ cli' = client_set_config(cli, v)
  /\ UNCHANGED <<srv_vars, ctl_vars>>

\* send_done_cb: the hello is written, the first read is started.
CliSendDone ==
  /\ cli.conn
  /\ cli.hello_pending
  /\ cli' = [cli EXCEPT !.hello_pending = FALSE, !.reading = TRUE]
  /\ UNCHANGED <<srv_vars, ctl_vars>>

\* The outstanding read completes; on a closed connection it fails.
CliReadDone(frame) ==
  /\ cli.reading
  /\ ~cli.conn => frame.kind = "eof"
  /\ cli' = read_done_cb(cli, frame)
  /\ UNCHANGED <<srv_vars, ctl_vars>>

\* The net client clock reports its statistics on the bus.
CliClockStats(synchronised, waited) ==
  /\ cli.clock
  /\ cli.watch
  /\ cli' = bus_cb_element(cli, synchronised, waited)
  /\ UNCHANGED <<srv_vars, ctl_vars>>

\* The bus watch hands the oldest message to bus_cb.
CliBusDispatch ==
  /\ cli.watch
  /\ cli.msgs # <<>>
  /\ LET m == Head(cli.msgs)
         c == [cli EXCEPT !.msgs = Tail(@)]
     IN IF m.type = "eos" THEN cli' = bus_cb_eos(c)
        ELSE \E seek_ok \in BOOLEAN : \E dur \in QueriedDurations :
               cli' = bus_cb_state_changed(c, m, now, seek_ok, dur)
  /\ UNCHANGED <<srv_vars, ctl_vars>>

\* GST_SEEK_FLAG_SNAP_AFTER | GST_SEEK_FLAG_KEY_UNIT: the pipeline lands on
\* the key unit at or after the requested position.
SnapAfter == {0, 1}

\* The flushing seek completes at its final position: async-done is examined
\* as a sync-message, gst_element_query_position succeeding or not.
CliAsyncDone(pos_ok, snap) ==
  /\ cli.pl.seeking
  /\ cli' = bus_cb_async_done([cli EXCEPT !.pl.seeking = FALSE,
                                          !.pl.seek_pos = @ + snap], pos_ok)
  /\ UNCHANGED <<srv_vars, ctl_vars>>

\* The client's pipeline completes one step of a pending state change; a
\* playbin that was never given a URI, or was given whatever lies outside
\* the track list, cannot leave READY.
CliPipelineStep ==
  /\ cli.pl.state # cli.pl.target
  /\ cli.pl.uri \notin {"", Garbage}
  /\ Len(cli.msgs) < MaxBus
  /\ LET st == NextState(cli.pl.state, cli.pl.target)
         old == IF cli.pl.state = "NULL" THEN "READY" ELSE cli.pl.state
     IN cli' = [cli EXCEPT !.pl.state = st,
                           !.msgs = Append(@, CliStateMsg(old, st))]
  /\ UNCHANGED <<srv_vars, ctl_vars>>

\* The track playing on the client reaches its end.
CliPipelineEos ==
  /\ cli.pl.state = "PLAYING"
  /\ ~cli.pl.eos
  /\ Len(cli.msgs) < MaxBus
  /\ cli' = [cli EXCEPT !.pl.eos = TRUE, !.msgs = Append(@, EosMsg)]
  /\ UNCHANGED <<srv_vars, ctl_vars>>

CliStop ==
  /\ cli.phase = "started"
  /\ cli' = gst_sync_client_stop(cli)
  /\ UNCHANGED <<srv_vars, ctl_vars>>

NextCli ==
  \/ \E ok \in BOOLEAN : CliStart(ok)
  \/ CliSendDone
  \/ \E f \in Frames : CliReadDone(f)
  \/ \E sy, wa \in BOOLEAN : CliClockStats(sy, wa)
  \/ CliBusDispatch
  \/ \E ok \in BOOLEAN : \E snap \in SnapAfter : CliAsyncDone(ok, snap)
  \/ CliPipelineStep
  \/ CliPipelineEos
  \/ CliStop
  \/ Tick

\* A client object right after gst_sync_client_new.
InitClient == InitSrv /\ InitCtlIdle /\ InitCli

SpecCli == InitClient /\ [][NextCli]_vars

----------------------------------------------------------------------------
(* The client's two threads: the main loop, which runs bus_cb for the bus  *)
(* watch and update_sync_info for notify::sync-info, and the streaming     *)
(* thread, which runs bus_cb for sync-message::async-done.  main_pc and    *)
(* str_pc are their positions, lock is the holder of info_lock.            *)

\* g_mutex_unlock, where the caller of update_pipeline holds info_lock, and
\* the return to the main loop.
up_return(c) ==
  [c EXCEPT !.main_pc = "idle", !.lock = IF @ = "main" THEN "none" ELSE @]

\* update_pipeline up to and including its first gst_element_set_state
up_begin(c, advance) ==
  LET i == c.info
      ct == i.playlist.current_track
      d == DurationAt(i.playlist.durations, ct)
      skip == IF d # NONE THEN d ELSE c.last_duration
      i1 == IF advance
            THEN [i EXCEPT !.playlist.current_track = ct + 1,
                           !.base_time_offset =
                              @ + skip + i.stream_start_delay]
            ELSE i
      c1 == [c EXCEPT !.info = i1,
                      !.pl.uri = UriAt(i1.playlist.uris,
                                       i1.playlist.current_track)]
  IN IF advance /\ ct + 1 = Len(i.playlist.uris) THEN up_return(c)
     ELSE IF advance /\ d = NONE /\ c.last_duration = NONE THEN up_return(c)
     ELSE IF i1.stopped THEN up_return(cli_set_state(c1, "NULL"))
     ELSE [cli_set_state(c1, "PAUSED") EXCEPT !.main_pc = "up_seek"]

\* update_pipeline: seek_offset = 0 and the seek state set to NEED_SEEK
up_seek(c) ==
  [c EXCEPT !.seek_offset = 0, !.seek_state = "NEED_SEEK",
            !.main_pc = "up_play"]

\* update_pipeline: "if (!paused) { set_base_time; set_state (PLAYING) }"
up_play(c) ==
  up_return(IF ~c.info.paused
            THEN cli_set_state(cli_set_base_time(c), "PLAYING")
            ELSE c)

\* The positions of the main loop inside update_pipeline.
InUpdatePipeline == {"up_info", "up_adv", "up_seek", "up_play"}

\* gst_element_set_state (NULL) stops the streaming thread: it returns once
\* that thread is out of its sync-message handler.
Joined == cli.str_pc = "idle"

\* update_sync_info under info_lock, up to the branch it takes.
usi_begin(c, info) ==
  LET old == c.info
      c1 == [c EXCEPT !.info = info, !.ctl_info = info]
      d == IF old = NoInfo THEN "first"
           ELSE IF old.stopped # info.stopped THEN "restart"
           ELSE IF old.playlist.current_track # info.playlist.current_track
           THEN "restart"
           ELSE IF old.paused # info.paused THEN "paused"
           ELSE IF old.base_time # info.base_time THEN "restart"
           ELSE "none"
  IN CASE d = "first" -> [c1 EXCEPT !.clock = TRUE, !.watch = TRUE]
       [] d = "restart" -> [c1 EXCEPT !.lock = "main", !.main_pc = "usi_null"]
       [] d = "paused" ->
            IF info.paused THEN cli_set_state(c1, "PAUSED")
            ELSE cli_set_state(cli_set_base_time(c1), "PLAYING")
       [] OTHER -> c1

\* A SyncState frame is read: sync_info_notify calls update_sync_info.
ThrReadDone(info) ==
  /\ cli.reading
  /\ cli.conn
  /\ cli.main_pc = "idle"
  /\ cli.lock = "none"
  /\ cli' = usi_begin(cli, info)
  /\ UNCHANGED <<srv_vars, ctl_vars>>

\* update_sync_info: gst_element_set_state (NULL), then update_pipeline
ThrUsiNull ==
  /\ cli.main_pc = "usi_null"
  /\ Joined
  /\ cli' = [cli_set_state(cli, "NULL") EXCEPT !.main_pc = "up_info"]
  /\ UNCHANGED <<srv_vars, ctl_vars>>

\* bus_cb, GST_MESSAGE_ELEMENT: the clock is synchronised, update_pipeline
\* is called under info_lock.
ThrClockStats(synchronised, waited) ==
  /\ cli.clock /\ cli.watch
  /\ cli.main_pc = "idle"
  /\ cli.lock = "none"
  /\ cli' = IF cli.synchronised \/ ~synchronised THEN cli
            ELSE IF ~waited THEN [cli EXCEPT !.synchronised = FALSE]
            ELSE [cli EXCEPT !.synchronised = TRUE, !.lock = "main",
                             !.main_pc = "up_info"]
  /\ UNCHANGED <<srv_vars, ctl_vars>>

\* bus_cb, GST_MESSAGE_EOS: gst_element_set_state (NULL), then
\* update_pipeline (self, TRUE).
ThrBusEos ==
  /\ cli.watch
  /\ cli.main_pc = "idle"
  /\ cli.msgs # <<>>
  /\ Head(cli.msgs).type = "eos"
  /\ Joined
  /\ cli' = [cli_set_state(cli, "NULL") EXCEPT !.main_pc = "up_adv"]
  /\ UNCHANGED <<srv_vars, ctl_vars>>

\* update_pipeline is entered: the SyncState is read (and advanced), the URI
\* programmed, the pipeline set to PAUSED, or to NULL when stopped.
ThrUpBegin ==
  /\ cli.main_pc \in {"up_info", "up_adv"}
  /\ Joined \/ cli.pl.state = "NULL" \/ ~cli.info.stopped
  /\ cli' = up_begin(cli, cli.main_pc = "up_adv")
  /\ UNCHANGED <<srv_vars, ctl_vars>>

ThrUpSeek ==
  /\ cli.main_pc = "up_seek"
  /\ cli' = up_seek(cli)
  /\ UNCHANGED <<srv_vars, ctl_vars>>

ThrUpPlay ==
  /\ cli.main_pc = "up_play"
  /\ cli' = up_play(cli)
  /\ UNCHANGED <<srv_vars, ctl_vars>>

\* bus_cb, GST_MESSAGE_STATE_CHANGED: the seek state is read, the message
\* parsed, the clock read.
ThrStateChanged ==
  /\ cli.watch
  /\ cli.main_pc = "idle"
  /\ cli.msgs # <<>>
  /\ Head(cli.msgs).type = "state-changed"
  /\ LET m == Head(cli.msgs)
         c == [cli EXCEPT !.msgs = Tail(@)]
     IN cli' = IF c.seek_state # "NEED_SEEK" THEN c
               ELSE IF m.old_state # "PAUSED" /\ m.new_state # "PLAYING"
               THEN c
               ELSE [c EXCEPT !.main_pc = "sc_set", !.t = now]
  /\ UNCHANGED <<srv_vars, ctl_vars>>

\* bus_cb, GST_MESSAGE_STATE_CHANGED: g_atomic_int_set (IN_SEEK)
ThrSetInSeek ==
  /\ cli.main_pc = "sc_set"
  /\ cli' = [cli EXCEPT !.seek_state = "IN_SEEK", !.main_pc = "sc_seek"]
  /\ UNCHANGED <<srv_vars, ctl_vars>>

\* bus_cb, GST_MESSAGE_STATE_CHANGED: under info_lock the position is
\* computed and the seek issued or not; then the duration is queried.
ThrSeek(seek_ok, dur) ==
  /\ cli.main_pc = "sc_seek"
  /\ cli.lock = "none"
  /\ LET pos == cli.t - cli.info.base_time - cli.info.base_time_offset
         c == [cli EXCEPT !.main_pc = "idle", !.t = 0, !.last_duration = dur]
     IN cli' = IF pos > SeekTolerance /\ seek_ok
               THEN [c EXCEPT !.pl.seeking = TRUE, !.pl.seek_pos = pos]
               ELSE [c EXCEPT !.seek_state = "DONE_SEEK"]
  /\ UNCHANGED <<srv_vars, ctl_vars>>

\* The streaming thread enters bus_cb for an async-done: the seek state is
\* read.
ad_begin(c) ==
  IF c.seek_state # "IN_SEEK" THEN c ELSE [c EXCEPT !.str_pc = "ad_query"]

\* The pipeline prerolls after gst_element_set_state (PAUSED): it commits
\* PAUSED and posts async-done from the streaming thread.
ThrPreroll ==
  /\ cli.pl.state = "NULL"
  /\ cli.pl.target # "NULL"
  /\ cli.pl.uri \notin {"", Garbage}
  /\ cli.str_pc = "idle"
  /\ Len(cli.msgs) < MaxBus
  /\ cli' = ad_begin([cli EXCEPT
                        !.pl.state = "PAUSED",
                        !.msgs = Append(@, CliStateMsg("READY", "PAUSED"))])
  /\ UNCHANGED <<srv_vars, ctl_vars>>

\* The flushing seek completes: async-done from the streaming thread.
ThrSeekDone(snap) ==
  /\ cli.pl.seeking
  /\ cli.str_pc = "idle"
  /\ cli' = ad_begin([cli EXCEPT !.pl.seeking = FALSE,
                                 !.pl.seek_pos = @ + snap])
  /\ UNCHANGED <<srv_vars, ctl_vars>>

\* bus_cb, GST_MESSAGE_ASYNC_DONE past its test of the seek state:
\* gst_element_query_position into seek_offset
ThrAsyncQuery(pos_ok) ==
  /\ cli.str_pc = "ad_query"
  /\ cli' = IF pos_ok
            THEN [cli EXCEPT !.seek_offset = cli.pl.seek_pos,
                             !.str_pc = "ad_base"]
            ELSE [cli EXCEPT !.str_pc = "ad_done"]
  /\ UNCHANGED <<srv_vars, ctl_vars>>

\* bus_cb, GST_MESSAGE_ASYNC_DONE: set_base_time under info_lock
ThrAsyncBase ==
  /\ cli.str_pc = "ad_base"
  /\ cli.lock = "none"
  /\ cli' = [cli_set_base_time(cli) EXCEPT !.str_pc = "ad_done"]
  /\ UNCHANGED <<srv_vars, ctl_vars>>

\* bus_cb, GST_MESSAGE_ASYNC_DONE: g_atomic_int_set (DONE_SEEK)
ThrAsyncDone ==
  /\ cli.str_pc = "ad_done"
  /\ cli' = [cli EXCEPT !.seek_state = "DONE_SEEK", !.str_pc = "idle"]
  /\ UNCHANGED <<srv_vars, ctl_vars>>

\* The pipeline moves between PAUSED and PLAYING.
ThrPipelineStep ==
  /\ cli.pl.state # "NULL"
  /\ CliPipelineStep

\* The SyncStates read in SpecThr.
ThrInfos == {i \in CliInfos : i.base_time = 1}

NextThr ==
  \/ \E ok \in BOOLEAN : CliStart(ok)
  \/ CliSendDone
  \/ \E i \in ThrInfos : ThrReadDone(i)
  \/ ThrUsiNull
  \/ \E sy, wa \in BOOLEAN : ThrClockStats(sy, wa)
  \/ ThrBusEos
  \/ ThrUpBegin
  \/ ThrUpSeek
  \/ ThrUpPlay
  \/ ThrStateChanged
  \/ ThrSetInSeek
  \/ \E ok \in BOOLEAN : \E dur \in QueriedDurations : ThrSeek(ok, dur)
  \/ ThrPreroll
  \/ \E snap \in SnapAfter : ThrSeekDone(snap)
  \/ \E ok \in BOOLEAN : ThrAsyncQuery(ok)
  \/ ThrAsyncBase
  \/ ThrAsyncDone
  \/ ThrPipelineStep
  \/ CliPipelineEos
  \/ Tick

SpecThr == InitClient /\ [][NextThr]_vars

\* The client's properties and its connection, without its playback.
NextProps ==
  \/ \E ok \in BOOLEAN : CliStart(ok)
  \/ CliSendDone
  \/ \E v \in Ids : SetId(v)
  \/ \E v \in Configs : SetConfig(v)
  \/ CliStop

SpecProps == InitClient /\ [][NextProps]_vars

\* C10: after gst_sync_client_stop has returned the control connection is
\* closed, the pipeline is in NULL and the clock is released.
C10_StopStopsPlayback ==
  cli.phase = "stopped" =>
    /\ ~cli.conn
    /\ cli.pl.state = "NULL" /\ cli.pl.target = "NULL"
    /\ ~cli.clock

\* C11: a SyncState frame whose version is not the one the client knows
\* never becomes the SyncState the client plays from, and the client
\* disconnects on it.
C11_UnknownVersionRejected ==
  /\ cli.info # NoInfo => cli.info.version = DefaultVersion
  /\ (cli.ctl_info # NoInfo /\ cli.ctl_info.version # DefaultVersion)
       => ~cli.conn

----------------------------------------------------------------------------

\* The position of the stream on the client's clock, as bus_cb computes it.
cur_pos == now - cli.info.base_time - cli.info.base_time_offset

\* The bus watch is about to hand bus_cb the message that the pipeline went
\* from PAUSED to PLAYING, and the seek decision is still to be made.
JoinPending ==
  /\ cli.watch
  /\ cli.msgs # <<>>
  /\ Head(cli.msgs) = CliStateMsg("PAUSED", "PLAYING")
  /\ cli.seek_state = "NEED_SEEK"
  /\ cli.info # NoInfo

\* C13: a client that finds its position at or below the seek tolerance
\* (a negative position included) when its pipeline reaches PLAYING issues
\* no seek: the seek state becomes DONE_SEEK and seek_offset stays 0.
C13_NoSeekWithinTolerance ==
  [][(CliBusDispatch /\ JoinPending /\ cur_pos <= SeekTolerance)
       => /\ cli'.seek_state = "DONE_SEEK"
          /\ cli'.seek_offset = 0
          /\ cli'.pl.seeking = cli.pl.seeking
          /\ cli'.pl.seek_pos = cli.pl.seek_pos]_vars

\* The decision was taken before the start of the stream.
C13_Witness ==
  /\ cli.info # NoInfo
  /\ cur_pos < 0
  /\ cli.seek_state = "DONE_SEEK"
  /\ cli.seek_offset = 0
  /\ cli.pl.state = "PLAYING"
  /\ ~cli.pl.seeking

\* The seek issued by bus_cb has completed and its async-done is about to be
\* examined.
SeekDone == cli.pl.seeking /\ cli.seek_state = "IN_SEEK" /\ cli.info # NoInfo

\* bus_cb issues a seek in this step.
SeekIssued ==
  /\ CliBusDispatch
  /\ cli'.pl.seeking
  /\ ~cli.pl.seeking \/ cli'.pl.seek_pos # cli.pl.seek_pos

\* The base time that belongs to the cached SyncState and a stream position.
SyncedBaseTime(c) ==
  c.info.base_time + c.info.base_time_offset + c.pl.seek_pos

\* A seek is issued only when the pipeline reaches PLAYING past the tolerance
\* with the decision still open, it goes to the position computed then, and
\* it closes the decision (IN_SEEK if the pipeline took it, else DONE_SEEK).
OneSeekToCurPos ==
  /\ SeekIssued => JoinPending /\ cur_pos > SeekTolerance
                     /\ cli'.pl.seek_pos = cur_pos
  /\ (CliBusDispatch /\ JoinPending /\ cur_pos > SeekTolerance)
       => \/ /\ cli'.seek_state = "IN_SEEK"
             /\ cli'.pl.seeking
             /\ cli'.pl.seek_pos = cur_pos
          \/ /\ cli'.seek_state = "DONE_SEEK"
             /\ ~SeekIssued

C17_StoppedStaysNull ==
  (cli.info # NoInfo /\ cli.info.stopped) => cli.pl.state = "NULL"

\* C20: while the SyncState the client holds has current_track = NONE the
\* client is idle: the URI of its pipeline is not taken from outside the
\* track list and the pipeline is not asked for PAUSED or PLAYING.
C20_IdleWithoutTrack ==
  (cli.info # NoInfo /\ cli.info.playlist.current_track = NONE)
    => cli.pl.uri # Garbage /\ cli.pl.target = "NULL"

\* The control connection was lost after a SyncState had been received: the
\* last read ended without data (a parse failure would have cleared the
\* control client's info).
ConnectionLost ==
  /\ cli.phase = "started"
  /\ ~cli.hello_pending
  /\ ~cli.reading
  /\ cli.ctl_info # NoInfo

\* C24: when a read on the control socket fails or meets the end of the
\* stream, the control client stops: no further read is issued and the
\* connection is closed.
C24_LostConnectionClosed == ConnectionLost => ~cli.conn

\* C25: while the client is connected, the id and the config held by
\* GstSyncClient and those held by its control client are the ones the
\* ClientHello carried.
C25_IdAndConfigFixed ==
  cli.conn =>
    /\ make_client_info(cli.ctl_id, cli.ctl_config) = cli.hello
    /\ make_client_info(cli.id, cli.config) = cli.hello

\* C27: as long as the network clock has not been reported synchronised the
\* client has not run update_pipeline (no URI is programmed) and has not
\* asked its pipeline for PAUSED or PLAYING.
C27_NoPlaybackBeforeSync ==
  ~cli.synchronised => cli.pl.uri = "" /\ cli.pl.target = "NULL"

\* C28: when the clock says it is synchronised but gst_clock_wait_for_sync
\* times out, the handler leaves the client exactly as it was:
\* update_pipeline has not run, the pipeline is untouched, the client is
\* marked not synchronised; so whatever could start playback before the
\* timeout (a later statistics message, a SyncState) still can.
C28_TimeoutLeavesClientAsItWas ==
  [][(~cli.synchronised /\ CliClockStats(TRUE, FALSE))
       => cli' = cli /\ ~cli'.synchronised]_vars

\* A client that holds a SyncState and waits for its clock, as a timed-out
\* wait leaves it.
C28_Witness ==
  /\ cli.clock /\ cli.watch
  /\ cli.info # NoInfo
  /\ ~cli.synchronised
  /\ cli.pl.target = "NULL"
  /\ cli.pl.uri = ""

\* The first of stopped, current_track, paused, base_time in which the
\* SyncState the client holds and the one it receives differ.
FirstDifference(old, new) ==
  IF old.stopped # new.stopped THEN "stopped"
  ELSE IF old.playlist.current_track # new.playlist.current_track
  THEN "current_track"
  ELSE IF old.paused # new.paused THEN "paused"
  ELSE IF old.base_time # new.base_time THEN "base_time"
  ELSE "none"

\* C29: a SyncState received after the first one is acted on by the first of
\* stopped, current_track, paused, base_time that differs from the SyncState
\* the client holds: for stopped, current_track and base_time the pipeline
\* goes to NULL and update_pipeline(FALSE) runs once on the new SyncState;
\* for paused the pipeline is only asked for PAUSED, or for PLAYING with
\* base_time + base_time_offset + seek_offset as its base time; when none of
\* the four differs the new SyncState is only stored.
C29_FirstDifferenceDecides ==
  [][(/\ cli.info # NoInfo
      /\ cli.reading
      /\ cli'.ctl_info # NoInfo
      /\ CliReadDone([kind |-> "info", info |-> cli'.ctl_info]))
       => LET new == cli'.ctl_info
              c1 == [cli EXCEPT !.info = new, !.ctl_info = new]
              d == FirstDifference(cli.info, new)
          IN CASE d \in {"stopped", "current_track", "base_time"} ->
                    cli' = cli_update_pipeline(cli_set_state(c1, "NULL"),
                                               FALSE)
               [] d = "paused" /\ new.paused ->
                    cli' = [c1 EXCEPT !.pl.target = "PAUSED"]
               [] d = "paused" /\ ~new.paused ->
                    cli' = [c1 EXCEPT
                              !.pl.target = "PLAYING",
                              !.pl.base_time = new.base_time
                                + new.base_time_offset + cli.seek_offset]
               [] OTHER -> cli' = c1]_vars

\* A playing pipeline asked for PAUSED by a SyncState that differs in paused
\* only: it was not taken to NULL.
C29_Witness ==
  /\ cli.info # NoInfo
  /\ cli.info = cli.ctl_info
  /\ cli.info.paused
  /\ cli.pl.state = "PLAYING"
  /\ cli.pl.target = "PAUSED"

\* The SyncState i names a track that is not the last one and whose duration
\* the playlist knows.
KnownDuration(i) ==
  /\ i # NoInfo
  /\ i.playlist.current_track >= 0
  /\ i.playlist.current_track + 1 < Len(i.playlist.uris)
  /\ DurationAt(i.playlist.durations, i.playlist.current_track) # NONE

\* A server whose get_sync_info is the SyncState i.
ServerHolding(i) ==
  [World EXCEPT !.srv.n_tracks = Len(i.playlist.uris),
                !.srv.uris = i.playlist.uris,
                !.srv.durations = i.playlist.durations,
                !.srv.current_track = i.playlist.current_track,
                !.srv.base_time = i.base_time,
                !.srv.base_time_offset = i.base_time_offset,
                !.srv.latency = i.latency,
                !.srv.stream_start_delay = i.stream_start_delay,
                !.srv.stopped = i.stopped,
                !.srv.paused = i.paused]

\* The SyncState of that server after its update_pipeline(TRUE).
ServerAdvance(i) ==
  [get_sync_info(update_pipeline(ServerHolding(i), TRUE, now).srv)
     EXCEPT !.version = i.version]

\* C30: for a track whose duration the playlist knows, the end of stream on
\* the client leaves it with the SyncState the server has after its own
\* advance (next track, base_time_offset grown by the duration and the stream
\* start delay); the server's SyncState for the advance arriving first takes
\* the client to the same SyncState and leaves no end of stream of the old
\* track on its bus; a SyncState equal to the one the client holds does not
\* touch the pipeline.  Either way the client advances once.
C30_AdvanceOnceEitherOrder ==
  [][/\ (/\ KnownDuration(cli.info)
         /\ cli.msgs # <<>>
         /\ Head(cli.msgs).type = "eos"
         /\ CliBusDispatch)
        => /\ cli'.info = ServerAdvance(cli.info)
           /\ cli'.pl.uri = UriAt(cli.info.playlist.uris,
                                  cli.info.playlist.current_track + 1)
     /\ (/\ cli.reading
         /\ KnownDuration(cli.info)
         /\ cli'.ctl_info = ServerAdvance(cli.info)
         /\ CliReadDone([kind |-> "info", info |-> ServerAdvance(cli.info)]))
        => /\ cli'.info = ServerAdvance(cli.info)
           /\ cli'.msgs = <<>>
           /\ cli'.pl.uri = UriAt(cli.info.playlist.uris,
                                  cli.info.playlist.current_track + 1)
     /\ (/\ cli.reading
         /\ cli.info # NoInfo
         /\ cli'.ctl_info = cli.info
         /\ CliReadDone([kind |-> "info", info |-> cli.info]))
        => /\ cli'.info = cli.info
           /\ cli'.pl = cli.pl
           /\ cli'.msgs = cli.msgs]_vars

\* The client plays the second track of the playlist with known durations,
\* holding the base_time_offset of the advance.
C30_Witness ==
  /\ cli.info \in KnownDurationInfos
  /\ cli.info.playlist.current_track = 1
  /\ cli.info.base_time_offset = 1 + StreamStartDelay
  /\ cli.pl.uri = "b"
  /\ cli.pl.state = "PLAYING"

\* C31: the seek state leaves NEED_SEEK, that is the alignment runs, only in
\* bus_cb handling the pipeline's state change from PAUSED to PLAYING; as it
\* leaves NEED_SEEK behind, it runs once per update_pipeline.
C31_AlignOnlyOnPausedToPlaying ==
  [][(cli.seek_state = "NEED_SEEK" /\ cli'.seek_state # "NEED_SEEK")
       => /\ cli.msgs # <<>>
          /\ Head(cli.msgs) = CliStateMsg("PAUSED", "PLAYING")
          /\ CliBusDispatch]_vars

\* The alignment has run for a playing pipeline.
C31_Witness ==
  /\ cli.info # NoInfo
  /\ cli.pl.state = "PLAYING"
  /\ cli.pl.uri \in {"a", "b"}
  /\ cli.seek_state \in {"IN_SEEK", "DONE_SEEK"}

\* NEED_SEEK, IN_SEEK, DONE_SEEK in their order.
SeekRank(st) ==
  CASE st = "NEED_SEEK" -> 0 [] st = "IN_SEEK" -> 1 [] st = "DONE_SEEK" -> 2

\* C32: under every interleaving of the main loop and the streaming thread
\* the seek state either moves forward in the order NEED_SEEK, IN_SEEK,
\* DONE_SEEK or is set to NEED_SEEK by update_pipeline.
C32_SeekStateForward ==
  [][cli'.seek_state # cli.seek_state
       => \/ SeekRank(cli.seek_state) < SeekRank(cli'.seek_state)
          \/ cli.main_pc = "up_seek" /\ cli'.seek_state = "NEED_SEEK"]_vars

\* C33: while the main loop is inside update_pipeline, where the cached
\* SyncState is read and modified, it holds info_lock.
C33_UpdatePipelineUnderLock ==
  cli.main_pc \in InUpdatePipeline => cli.lock = "main"

\* C34: the streaming thread finds the seek state IN_SEEK for an async-done
\* only when that async-done completes a seek the client has issued.
C34_AsyncDoneOnlyForSeek ==
  [][(cli.str_pc = "idle" /\ cli'.str_pc = "ad_query") => cli.pl.seeking]_vars

\* C35: between handlers, a pipeline that plays for a SyncState neither
\* stopped nor paused has base_time + base_time_offset + seek_offset of that
\* SyncState as its base time.
C35_BaseTimeFollowsSyncState ==
  (/\ cli.info # NoInfo
   /\ ~cli.info.stopped /\ ~cli.info.paused
   /\ cli.pl.state = "PLAYING")
  => cli.pl.base_time =
       cli.info.base_time + cli.info.base_time_offset + cli.seek_offset

\* C36: on every session the SyncStates are transmitted in the order of the
\* set_sync_info calls: no frame carries an earlier SyncState than a frame
\* sent before it.
C36_SentInPublicationOrder ==
  \A s \in Sessions :
    \A i, j \in 1..Len(sess[s].sent) :
      i < j => sess[s].sent[i].seq <= sess[s].sent[j].seq

\* A session has transmitted two different SyncStates.
C36_Witness ==
  \E s \in Sessions :
    /\ Len(sess[s].sent) >= 2
    /\ sess[s].sent[1].seq < sess[s].sent[2].seq

\* C40: when read_done_cb has handled a frame that does not parse, on a
\* connection that is still open, the next read is pending.
C40_ReadPendingAfterBadFrame ==
  [][(cli.conn /\ cli.reading /\ CliReadDone([kind |-> "garbage"]))
       => cli'.reading]_vars

Init == InitSrv /\ InitCtlIdle /\ InitCli

Next ==
  \/ \E pl \in Playlists : SetPlaylist(pl)
  \/ \E f \in StartFailures : Start(f)
  \/ \E b \in BOOLEAN : SetStopped(b)
  \/ \E b \in BOOLEAN : SetPaused(b)
  \/ Stop
  \/ BusStateChanged
  \/ \E h \in EndOfPlaylistHandlers : BusEos(h)
  \/ PipelineStep
  \/ PipelineEos
  \/ Tick

Spec == Init /\ [][Next]_vars

====
